---- MODULE Spec2Model ----
(***************************************************************************)
(* Model of packages/fx-core/src/core/middleware/envLoader.ts:             *)
(* the EnvLoaderMW middleware, loadSolutionContext, askTargetEnvironment   *)
(* and _getQuestionsForProvision.                                          *)
(*                                                                         *)
(* Every async function is cut at its awaits: one action is the code that  *)
(* runs from one resumption to the next suspension.  The collaborators     *)
(* (environmentManager, traverse/ui, next) answer nondeterministically.    *)
(* Every call to a collaborator is appended to calls[i] when it is issued  *)
(* and its result is filled in when it returns.                            *)
(***************************************************************************)
EXTENDS Integers, Sequences, FiniteSets, TLC

VARIABLES
  pc,                               \* position of each invocation
  ctx,                              \* CoreHookContext of each invocation
  inputs,                           \* Inputs object (last argument) of each invocation
  tools,                            \* core.tools of each invocation
  QuestionSelectTargetEnvironment,  \* module-level question object shared by all invocations
  getQuestionRes,                   \* askTargetEnvironment's local getQuestionRes
  cryptoProvider,                   \* loadSolutionContext's local cryptoProvider
  resolution,                       \* value returned by loadSolutionContext
  calls,                            \* collaborator calls of each invocation, in order
  synthesized                       \* runs of newSolutionContext so far, in order

vars == <<pc, ctx, inputs, tools, QuestionSelectTargetEnvironment, getQuestionRes,
          cryptoProvider, resolution, calls, synthesized>>

----------------------------------------------------------------------------
(* Bounds *)

MaxEnvs == 2              \* longest list listEnvProfiles returns
MaxNewContexts == 2       \* most runs of newSolutionContext

----------------------------------------------------------------------------
(* Values *)

Procs == {"A", "B"}

undefined == "undefined"                 \* absent string-valued property
NoValue == [kind |-> "undefined"]        \* absent object-valued property

Falsy(s) == s \in {undefined, ""}

Ok(v) == [kind |-> "ok", value |-> v]
Err(e) == [kind |-> "err", error |-> e]

NoProjectOpenedError == "NoProjectOpened"
ListError == "ListEnvProfilesFailed"
LoadError == "LoadEnvProfileFailed"
UIErrors == {"UserCancel"}

NewEnvOption == "+ new env"
defaultEnvName == "default"

\* a provider built without its key
LocalCrypto_Unkeyed(projectId) == [kind |-> "LocalCrypto", projectId |-> undefined]

LocalCrypto(projectId) == [kind |-> "LocalCrypto", projectId |-> projectId]

EnvNames == {"dev", "prod", "test"}

EnvLists ==
  {s \in UNION {[1..k -> EnvNames] : k \in 0..MaxEnvs} :
     \A a, b \in DOMAIN s : a # b => s[a] # s[b]}

Merge(a, b) ==
  [k \in (DOMAIN a) \cup (DOMAIN b) |-> IF k \in DOMAIN b THEN b[k] ELSE a[k]]

Range(s) == {s[k] : k \in DOMAIN s}

----------------------------------------------------------------------------
(* Collaborators declared outside envLoader.ts *)

\* ../question: the free-text question asked for a new environment's name
QuestionNewTargetEnvironmentName == [name |-> "newTargetEnvName", type |-> "text"]

\* ../question: the single-select question, as the module exports it
InitialQuestionSelectTargetEnvironment ==
  [name |-> "targetEnvName", type |-> "singleSelect", staticOptions |-> <<>>]

\* traverse: a child is entered iff its condition accepts the parent's answer
Visible(child, answer) == child.condition.equals = answer

\* QTreeNode.trim: removes empty group nodes; a question node is kept as it is
Trim(node) == node

\* names the registry may store a profile under: the name asked for, or that
\* name in lower case ("Dev" is the one mixed-case name of the model)
Normalize(name) == IF name = "Dev" THEN "dev" ELSE name
LoadedNames(name) == {name, Normalize(name)}

PluginConfigs == {{}, {"solution"}}      \* key sets of a profile's data map

EnvProfiles(name) == [envName : LoadedNames(name), data : PluginConfigs]

NewNameAnswers == {"", "staging", NewEnvOption}   \* what the operator may type

----------------------------------------------------------------------------
(* Pure parts of envLoader.ts *)

\* line 48 without its projectPath test
NoProjectGuard_SettingsOnly(inp, c) == c.projectSettings = NoValue

\* loadSolutionContext, line 48
NoProjectGuard(inp, c) == Falsy(inp.projectPath) \/ c.projectSettings = NoValue

\* lines 55-62 without the replacement of "+ new env" by the new name
ResolveTargetEnvName_NoSentinel(inp) ==
  Ok(IF inp.targetEnvName # undefined THEN inp.targetEnvName ELSE defaultEnvName)

\* loadSolutionContext, lines 55-62: the name to load, or the failure
ResolveTargetEnvName(inp) ==
  LET targetEnvName == IF inp.targetEnvName # undefined
                       THEN inp.targetEnvName ELSE defaultEnvName
  IN IF targetEnvName = NewEnvOption
     THEN IF Falsy(inp.newTargetEnvName)
          THEN Err(NoProjectOpenedError)
          ELSE Ok(inp.newTargetEnvName)
     ELSE Ok(targetEnvName)

\* line 70 passing the provider whatever the flag says
LoadCryptoArg_Always(c, cp) == cp

\* loadSolutionContext, line 70: third argument of loadEnvProfile
LoadCryptoArg(c, cp) == IF c.projectIdMissing THEN NoValue ELSE cp

\* loadSolutionContext, lines 78-87: the object literal, spreads in source order
AssembleSolutionContext(projectSettings, envInfo, inp, tls, cp) ==
  LET head == [projectSettings |-> projectSettings,
               targetEnvName |-> envInfo.envName,
               config |-> envInfo.data,
               root |-> IF Falsy(inp.projectPath) THEN "" ELSE inp.projectPath]
      withTools == Merge(head, tls)
      withTokenProvider == Merge(withTools, tls.tokenProvider)
  IN Merge(withTokenProvider, [answers |-> inp, cryptoProvider |-> cp])

\* line 166 with the operands of concat exchanged
StaticOptions_Appended(envs) == envs \o <<NewEnvOption>>

\* _getQuestionsForProvision, line 166
StaticOptions(envs) == <<NewEnvOption>> \o envs

\* _getQuestionsForProvision, line 170
ChildCondition == [equals |-> NewEnvOption]

\* _getQuestionsForProvision, lines 167-174: the node wraps the shared question
\* object by reference (data names it), the child is a fresh node
BuildQuestionTree ==
  Trim([data |-> "QuestionSelectTargetEnvironment",
        children |-> <<[data |-> QuestionNewTargetEnvironmentName,
                        condition |-> ChildCondition]>>])

----------------------------------------------------------------------------
(* Calls to collaborators *)

ListCall(path) == [op |-> "listEnvProfiles", projectPath |-> path, result |-> NoValue]
LoadCall(path, name, cp) ==
  [op |-> "loadEnvProfile", projectPath |-> path, envName |-> name,
   cryptoProvider |-> cp, result |-> NoValue]
PresentCall(question, options) ==
  [op |-> "present", question |-> question, options |-> options, result |-> NoValue]
\* next() called before ctx.solutionContext is assigned (lines 37 and 40 exchanged)
NextCall_BeforeAssign(result, solutionContext) ==
  [op |-> "next", ctxResult |-> result, solutionContext |-> NoValue,
   result |-> NoValue]

NextCall(result, solutionContext) ==
  [op |-> "next", ctxResult |-> result, solutionContext |-> solutionContext,
   result |-> NoValue]

Returned(cs, r) == [cs EXCEPT ![Len(cs)] = [@ EXCEPT !.result = r]]

----------------------------------------------------------------------------
(* Inputs an invocation may start from *)

ProjectSettingsOf(projectId) ==
  [appName |-> "app", projectId |-> projectId,
   solutionSettings |-> [name |-> "fx-solution-azure", version |-> "1.0.0"]]

InputsValues ==
  [projectPath : {undefined, "", "/projA"},
   targetEnvName : {undefined, "", "Dev", NewEnvOption},
   newTargetEnvName : {undefined, "", "staging"}]

CtxValues ==
  [projectSettings : {NoValue, ProjectSettingsOf(undefined), ProjectSettingsOf("id-1")},
   projectIdMissing : BOOLEAN,
   result : {NoValue},
   solutionContext : {NoValue}]

PlainTokenProvider ==
  [azureAccountProvider |-> "azure", graphTokenProvider |-> "graph",
   appStudioToken |-> "appStudio"]

PlainTools ==
  [logProvider |-> "log", tokenProvider |-> PlainTokenProvider,
   telemetryReporter |-> "telemetry", ui |-> "ui"]

\* a tools bag that carries a property named like a context field
ToolsWithEnvName == Merge(PlainTools, [targetEnvName |-> "toolsEnv"])

\* a tools bag whose token provider carries properties named like context fields
ToolsWithTokenFields ==
  [PlainTools EXCEPT !.tokenProvider =
     Merge(PlainTokenProvider,
           [config |-> {"tokenConfig"},
            cryptoProvider |-> LocalCrypto("tools-key"),
            answers |-> [projectPath |-> "/other", targetEnvName |-> undefined,
                         newTargetEnvName |-> undefined]])]

ToolsBags == {PlainTools, ToolsWithEnvName, ToolsWithTokenFields}

IdleInputs ==
  [projectPath |-> undefined, targetEnvName |-> undefined, newTargetEnvName |-> undefined]
IdleCtx ==
  [projectSettings |-> NoValue, projectIdMissing |-> FALSE, result |-> NoValue,
   solutionContext |-> NoValue]

\* one invocation ("A"); "B" is never invoked
Init ==
  \E c \in CtxValues, inp \in InputsValues, t \in ToolsBags :
    /\ pc = [i \in Procs |-> IF i = "A" THEN "start" ELSE "idle"]
    /\ ctx = [i \in Procs |-> IF i = "A" THEN c ELSE IdleCtx]
    /\ inputs = [i \in Procs |-> IF i = "A" THEN inp ELSE IdleInputs]
    /\ tools = [i \in Procs |-> IF i = "A" THEN t ELSE PlainTools]
    /\ QuestionSelectTargetEnvironment = InitialQuestionSelectTargetEnvironment
    /\ getQuestionRes = [i \in Procs |-> NoValue]
    /\ cryptoProvider = [i \in Procs |-> NoValue]
    /\ resolution = [i \in Procs |-> NoValue]
    /\ calls = [i \in Procs |-> <<>>]
    /\ synthesized = <<>>

----------------------------------------------------------------------------
(* Actions: one per run of code between two suspension points *)

\* the first run without the test of line 30: loadSolutionContext is called
\* whether or not the project is opened
EnvLoaderMW_AlwaysLoad(i) ==
  /\ pc[i] = "start"
  /\ UNCHANGED <<ctx, inputs, tools, QuestionSelectTargetEnvironment, cryptoProvider,
                 getQuestionRes, synthesized>>
  /\ IF NoProjectGuard(inputs[i], ctx[i])
     THEN /\ resolution' = [resolution EXCEPT ![i] = Err(NoProjectOpenedError)]
          /\ pc' = [pc EXCEPT ![i] = "awaitLoadSolutionContext"]
          /\ UNCHANGED calls
     ELSE /\ calls' = [calls EXCEPT ![i] = Append(@, ListCall(inputs[i].projectPath))]
          /\ pc' = [pc EXCEPT ![i] = "awaitListEnvProfiles"]
          /\ UNCHANGED resolution

\* EnvLoaderMW lines 27-31 and 40, loadSolutionContext lines 48-54,
\* askTargetEnvironment line 114, _getQuestionsForProvision lines 156-160
EnvLoaderMW(i) ==
  /\ pc[i] = "start"
  /\ UNCHANGED synthesized
  /\ UNCHANGED <<ctx, inputs, tools, QuestionSelectTargetEnvironment, cryptoProvider>>
  /\ IF ctx[i].projectSettings = NoValue
     THEN \* line 30 is false: straight to next()
          /\ calls' = [calls EXCEPT ![i] =
                         Append(@, NextCall(ctx[i].result, ctx[i].solutionContext))]
          /\ pc' = [pc EXCEPT ![i] = "awaitNext"]
          /\ UNCHANGED <<getQuestionRes, resolution>>
     ELSE IF NoProjectGuard(inputs[i], ctx[i])
     THEN \* line 49
          /\ resolution' = [resolution EXCEPT ![i] = Err(NoProjectOpenedError)]
          /\ pc' = [pc EXCEPT ![i] = "awaitLoadSolutionContext"]
          /\ UNCHANGED <<getQuestionRes, calls>>
     ELSE IF Falsy(inputs[i].projectPath)
     THEN \* line 157
          /\ getQuestionRes' = [getQuestionRes EXCEPT ![i] = Err(NoProjectOpenedError)]
          /\ pc' = [pc EXCEPT ![i] = "awaitGetQuestions"]
          /\ UNCHANGED <<resolution, calls>>
     ELSE \* line 160
          /\ calls' = [calls EXCEPT ![i] = Append(@, ListCall(inputs[i].projectPath))]
          /\ pc' = [pc EXCEPT ![i] = "awaitListEnvProfiles"]
          /\ UNCHANGED <<getQuestionRes, resolution>>

\* _getQuestionsForProvision lines 161-174, resumed with listEnvProfiles' result
ListEnvProfilesReturns(i) ==
  /\ pc[i] = "awaitListEnvProfiles"
  /\ UNCHANGED synthesized
  /\ \E envProfilesResult \in {Ok(l) : l \in EnvLists} \cup {Err(ListError)} :
       /\ calls' = [calls EXCEPT ![i] = Returned(@, envProfilesResult)]
       /\ IF envProfilesResult.kind = "err"
          THEN /\ getQuestionRes' =
                    [getQuestionRes EXCEPT ![i] = Err(envProfilesResult.error)]
               /\ UNCHANGED QuestionSelectTargetEnvironment
          ELSE /\ QuestionSelectTargetEnvironment' =
                    [QuestionSelectTargetEnvironment EXCEPT
                       !.staticOptions = StaticOptions(envProfilesResult.value)]
               /\ getQuestionRes' = [getQuestionRes EXCEPT ![i] = Ok(BuildQuestionTree)]
  /\ pc' = [pc EXCEPT ![i] = "awaitGetQuestions"]
  /\ UNCHANGED <<ctx, inputs, tools, cryptoProvider, resolution>>

\* askTargetEnvironment lines 115-138, and traverse up to the root prompt
AskTargetEnvironmentResume(i) ==
  /\ pc[i] = "awaitGetQuestions"
  /\ UNCHANGED synthesized
  /\ UNCHANGED <<inputs, tools, QuestionSelectTargetEnvironment, getQuestionRes,
                 cryptoProvider, resolution>>
  /\ IF getQuestionRes[i].kind = "err"
     THEN \* lines 116-122
          /\ ctx' = [ctx EXCEPT ![i].result = Err(getQuestionRes[i].error)]
          /\ pc' = [pc EXCEPT ![i] = "awaitAskTargetEnvironment"]
          /\ UNCHANGED calls
     ELSE IF getQuestionRes[i].value = NoValue
     THEN \* line 137 is false
          /\ pc' = [pc EXCEPT ![i] = "awaitAskTargetEnvironment"]
          /\ UNCHANGED <<ctx, calls>>
     ELSE \* line 138: the root question is presented with the options the
          \* shared question object holds now
          /\ calls' = [calls EXCEPT ![i] =
                         Append(@, PresentCall(QuestionSelectTargetEnvironment.name,
                                               QuestionSelectTargetEnvironment.staticOptions))]
          /\ pc' = [pc EXCEPT ![i] = "awaitRootAnswer"]
          /\ UNCHANGED ctx

\* traverse after the root prompt; askTargetEnvironment lines 139-149 when
\* traverse returns here
RootAnswered(i) ==
  /\ pc[i] = "awaitRootAnswer"
  /\ UNCHANGED synthesized
  /\ UNCHANGED <<tools, QuestionSelectTargetEnvironment, getQuestionRes,
                 cryptoProvider, resolution>>
  /\ LET presented == calls[i][Len(calls[i])]
         node == getQuestionRes[i].value
     IN \E res \in {Ok(a) : a \in Range(presented.options)} \cup {Err(e) : e \in UIErrors} :
          IF res.kind = "err"
          THEN \* lines 139-143
               /\ calls' = [calls EXCEPT ![i] = Returned(@, res)]
               /\ ctx' = [ctx EXCEPT ![i].result = Err(res.error)]
               /\ pc' = [pc EXCEPT ![i] = "awaitAskTargetEnvironment"]
               /\ UNCHANGED inputs
          ELSE /\ inputs' = [inputs EXCEPT ![i] =
                               [@ EXCEPT ![presented.question] = res.value]]
               /\ UNCHANGED ctx
               /\ IF Visible(node.children[1], res.value)
                  THEN /\ calls' = [calls EXCEPT ![i] =
                                      Append(Returned(@, res),
                                             PresentCall(node.children[1].data.name, <<>>))]
                       /\ pc' = [pc EXCEPT ![i] = "awaitChildAnswer"]
                  ELSE /\ calls' = [calls EXCEPT ![i] = Returned(@, res)]
                       /\ pc' = [pc EXCEPT ![i] = "awaitAskTargetEnvironment"]

\* the new-name prompt presented again when it fails
ChildAnswered_Retry(i) ==
  /\ pc[i] = "awaitChildAnswer"
  /\ UNCHANGED <<tools, QuestionSelectTargetEnvironment, getQuestionRes,
                 cryptoProvider, resolution, synthesized, ctx>>
  /\ LET presented == calls[i][Len(calls[i])]
     IN \E res \in {Ok(a) : a \in NewNameAnswers} \cup {Err(e) : e \in UIErrors} :
          IF res.kind = "err"
          THEN /\ calls' = [calls EXCEPT ![i] =
                              Append(Returned(@, res),
                                     PresentCall(presented.question, presented.options))]
               /\ pc' = [pc EXCEPT ![i] = "awaitAskTargetEnvironment"]
               /\ UNCHANGED inputs
          ELSE /\ calls' = [calls EXCEPT ![i] = Returned(@, res)]
               /\ pc' = [pc EXCEPT ![i] = "awaitAskTargetEnvironment"]
               /\ inputs' = [inputs EXCEPT ![i] =
                               [@ EXCEPT ![presented.question] = res.value]]

\* traverse after the new-name prompt; askTargetEnvironment lines 139-149
ChildAnswered(i) ==
  /\ pc[i] = "awaitChildAnswer"
  /\ UNCHANGED synthesized
  /\ UNCHANGED <<tools, QuestionSelectTargetEnvironment, getQuestionRes,
                 cryptoProvider, resolution>>
  /\ LET presented == calls[i][Len(calls[i])]
     IN \E res \in {Ok(a) : a \in NewNameAnswers} \cup {Err(e) : e \in UIErrors} :
          /\ calls' = [calls EXCEPT ![i] = Returned(@, res)]
          /\ pc' = [pc EXCEPT ![i] = "awaitAskTargetEnvironment"]
          /\ IF res.kind = "err"
             THEN /\ ctx' = [ctx EXCEPT ![i].result = Err(res.error)]
                  /\ UNCHANGED inputs
             ELSE /\ inputs' = [inputs EXCEPT ![i] =
                                  [@ EXCEPT ![presented.question] = res.value]]
                  /\ UNCHANGED ctx

\* loadSolutionContext lines 55-71, resumed when askTargetEnvironment returns
LoadSolutionContextResume(i) ==
  /\ pc[i] = "awaitAskTargetEnvironment"
  /\ UNCHANGED synthesized
  /\ UNCHANGED <<ctx, inputs, tools, QuestionSelectTargetEnvironment, getQuestionRes>>
  /\ LET targetEnvName == ResolveTargetEnvName(inputs[i])
         cp == LocalCrypto(ctx[i].projectSettings.projectId)
     IN IF targetEnvName.kind = "err"
        THEN \* line 58
             /\ resolution' = [resolution EXCEPT ![i] = targetEnvName]
             /\ pc' = [pc EXCEPT ![i] = "awaitLoadSolutionContext"]
             /\ UNCHANGED <<cryptoProvider, calls>>
        ELSE \* lines 64-71
             /\ cryptoProvider' = [cryptoProvider EXCEPT ![i] = cp]
             /\ calls' = [calls EXCEPT ![i] =
                            Append(@, LoadCall(inputs[i].projectPath, targetEnvName.value,
                                               LoadCryptoArg(ctx[i], cp)))]
             /\ pc' = [pc EXCEPT ![i] = "awaitLoadEnvProfile"]
             /\ UNCHANGED resolution

\* loadSolutionContext lines 73-89, resumed with loadEnvProfile's result
LoadEnvProfileReturns(i) ==
  /\ pc[i] = "awaitLoadEnvProfile"
  /\ UNCHANGED synthesized
  /\ LET asked == calls[i][Len(calls[i])]
     IN \E envDataResult \in {Ok(p) : p \in EnvProfiles(asked.envName)}
                             \cup {Err(LoadError)} :
          /\ calls' = [calls EXCEPT ![i] = Returned(@, envDataResult)]
          /\ resolution' =
               [resolution EXCEPT ![i] =
                  IF envDataResult.kind = "err"
                  THEN Err(envDataResult.error)
                  ELSE Ok(AssembleSolutionContext(ctx[i].projectSettings,
                                                  envDataResult.value, inputs[i],
                                                  tools[i], cryptoProvider[i]))]
  /\ pc' = [pc EXCEPT ![i] = "awaitLoadSolutionContext"]
  /\ UNCHANGED <<ctx, inputs, tools, QuestionSelectTargetEnvironment, getQuestionRes,
                 cryptoProvider>>

\* lines 32-40 without the return of line 34: the failure is recorded and
\* the next stage is called all the same
EnvLoaderMWResume_FallThrough(i) ==
  /\ pc[i] = "awaitLoadSolutionContext"
  /\ UNCHANGED synthesized
  /\ UNCHANGED <<inputs, tools, QuestionSelectTargetEnvironment, getQuestionRes,
                 cryptoProvider, resolution>>
  /\ LET recorded == IF resolution[i].kind = "err"
                     THEN [ctx[i] EXCEPT !.result = Err(resolution[i].error)]
                     ELSE [ctx[i] EXCEPT !.solutionContext = resolution[i].value]
     IN /\ ctx' = [ctx EXCEPT ![i] = recorded]
        /\ calls' = [calls EXCEPT ![i] =
                       Append(@, NextCall(recorded.result, recorded.solutionContext))]
        /\ pc' = [pc EXCEPT ![i] = "awaitNext"]

\* EnvLoaderMW lines 32-40, resumed when loadSolutionContext returns
EnvLoaderMWResume(i) ==
  /\ pc[i] = "awaitLoadSolutionContext"
  /\ UNCHANGED synthesized
  /\ UNCHANGED <<inputs, tools, QuestionSelectTargetEnvironment, getQuestionRes,
                 cryptoProvider, resolution>>
  /\ IF resolution[i].kind = "err"
     THEN \* lines 33-34
          /\ ctx' = [ctx EXCEPT ![i].result = Err(resolution[i].error)]
          /\ pc' = [pc EXCEPT ![i] = "done"]
          /\ UNCHANGED calls
     ELSE \* lines 37 and 40
          /\ ctx' = [ctx EXCEPT ![i].solutionContext = resolution[i].value]
          /\ calls' = [calls EXCEPT ![i] =
                         Append(@, NextCall(ctx[i].result, resolution[i].value))]
          /\ pc' = [pc EXCEPT ![i] = "awaitNext"]

\* EnvLoaderMW line 40 returns: the rest of the pipeline has run.  What the
\* later stages store in ctx is theirs; this records only that they returned.
NextReturns(i) ==
  /\ pc[i] = "awaitNext"
  /\ UNCHANGED synthesized
  /\ calls' = [calls EXCEPT ![i] = Returned(@, Ok("returned"))]
  /\ pc' = [pc EXCEPT ![i] = "done"]
  /\ UNCHANGED <<ctx, inputs, tools, QuestionSelectTargetEnvironment, getQuestionRes,
                 cryptoProvider, resolution>>

Next ==
  \E i \in Procs :
    \/ EnvLoaderMW(i)
    \/ ListEnvProfilesReturns(i)
    \/ AskTargetEnvironmentResume(i)
    \/ RootAnswered(i)
    \/ ChildAnswered(i)
    \/ LoadSolutionContextResume(i)
    \/ LoadEnvProfileReturns(i)
    \/ EnvLoaderMWResume(i)
    \/ NextReturns(i)

Spec == Init /\ [][Next]_vars

\* two invocations for two different opened projects, interleaved at their
\* suspension points; neither has a pre-supplied answer
ConcCtx(projectId) ==
  [projectSettings |-> ProjectSettingsOf(projectId), projectIdMissing |-> FALSE,
   result |-> NoValue, solutionContext |-> NoValue]
ConcInputs(projectPath) ==
  [projectPath |-> projectPath, targetEnvName |-> undefined,
   newTargetEnvName |-> undefined]

InitConc ==
  /\ pc = [i \in Procs |-> "start"]
  /\ ctx = [i \in Procs |-> IF i = "A" THEN ConcCtx("id-1") ELSE ConcCtx("id-2")]
  /\ inputs = [i \in Procs |-> IF i = "A" THEN ConcInputs("/projA")
                                          ELSE ConcInputs("/projB")]
  /\ tools = [i \in Procs |-> PlainTools]
  /\ QuestionSelectTargetEnvironment = InitialQuestionSelectTargetEnvironment
  /\ getQuestionRes = [i \in Procs |-> NoValue]
  /\ cryptoProvider = [i \in Procs |-> NoValue]
  /\ resolution = [i \in Procs |-> NoValue]
  /\ calls = [i \in Procs |-> <<>>]
  /\ synthesized = <<>>

SpecConc == InitConc /\ [][Next]_vars

----------------------------------------------------------------------------
(* newSolutionContext *)

\* uuid.v4(): an identifier that was not generated before; `generated` counts
\* the identifiers generated so far
Uuids == <<"uuid-1", "uuid-2", "uuid-3", "uuid-4">>
UuidV4(generated) == Uuids[generated + 1]

\* lines 93-110 with a constant in place of uuid.v4()
NewSolutionContextOf_Fixed(tls, inp, projectId) ==
  LET projectSettings ==
        [appName |-> "", projectId |-> "00000000-0000-0000-0000-000000000000",
         solutionSettings |-> [name |-> "fx-solution-azure", version |-> "1.0.0"]]
      head == [projectSettings |-> projectSettings,
               config |-> {},
               root |-> IF Falsy(inp.projectPath) THEN "" ELSE inp.projectPath]
      withTools == Merge(head, tls)
      withTokenProvider == Merge(withTools, tls.tokenProvider)
  IN Merge(withTokenProvider,
           [answers |-> inp, cryptoProvider |-> LocalCrypto(projectSettings.projectId)])

\* newSolutionContext, lines 93-110: the two object literals
NewSolutionContextOf(tls, inp, projectId) ==
  LET projectSettings ==
        [appName |-> "", projectId |-> projectId,
         solutionSettings |-> [name |-> "fx-solution-azure", version |-> "1.0.0"]]
      head == [projectSettings |-> projectSettings,
               config |-> {},
               root |-> IF Falsy(inp.projectPath) THEN "" ELSE inp.projectPath]
      withTools == Merge(head, tls)
      withTokenProvider == Merge(withTools, tls.tokenProvider)
  IN Merge(withTokenProvider,
           [answers |-> inp, cryptoProvider |-> LocalCrypto(projectSettings.projectId)])

\* tools bags that carry the properties of the Tools interface and no other
TreeTools == Merge(PlainTools, [treeProvider |-> "tree"])
InterfaceToolsBags == {PlainTools, TreeTools}

NewInputsValues ==
  [projectPath : {undefined, "/projA"},
   targetEnvName : {undefined},
   newTargetEnvName : {undefined}]

\* a run that first lists the environments of inputs.projectPath
NewSolutionContext_Listing ==
  /\ Len(synthesized) < MaxNewContexts
  /\ \E tls \in InterfaceToolsBags, inp \in NewInputsValues :
       /\ synthesized' =
            Append(synthesized,
                   [tools |-> tls, inputs |-> inp,
                    context |-> NewSolutionContextOf(tls, inp, UuidV4(Len(synthesized)))])
       /\ calls' = [calls EXCEPT !["B"] = Append(@, ListCall(inp.projectPath))]
  /\ UNCHANGED <<pc, ctx, inputs, tools, QuestionSelectTargetEnvironment,
                 getQuestionRes, cryptoProvider, resolution>>

\* one run of newSolutionContext (it has no suspension point)
NewSolutionContext ==
  /\ Len(synthesized) < MaxNewContexts
  /\ \E tls \in InterfaceToolsBags, inp \in NewInputsValues :
       synthesized' =
         Append(synthesized,
                [tools |-> tls, inputs |-> inp,
                 context |-> NewSolutionContextOf(tls, inp, UuidV4(Len(synthesized)))])
  /\ UNCHANGED <<pc, ctx, inputs, tools, QuestionSelectTargetEnvironment,
                 getQuestionRes, cryptoProvider, resolution, calls>>

\* one invocation of the middleware on an opened project, and runs of
\* newSolutionContext
InitNew ==
  \E projectId \in {undefined, "id-1"}, tls \in InterfaceToolsBags :
    /\ pc = [i \in Procs |-> IF i = "A" THEN "start" ELSE "idle"]
    /\ ctx = [i \in Procs |-> IF i = "A" THEN ConcCtx(projectId) ELSE IdleCtx]
    /\ inputs = [i \in Procs |-> IF i = "A" THEN ConcInputs("/projA") ELSE IdleInputs]
    /\ tools = [i \in Procs |-> IF i = "A" THEN tls ELSE PlainTools]
    /\ QuestionSelectTargetEnvironment = InitialQuestionSelectTargetEnvironment
    /\ getQuestionRes = [i \in Procs |-> NoValue]
    /\ cryptoProvider = [i \in Procs |-> NoValue]
    /\ resolution = [i \in Procs |-> NoValue]
    /\ calls = [i \in Procs |-> <<>>]
    /\ synthesized = <<>>

NextNew == Next \/ NewSolutionContext

SpecNew == InitNew /\ [][NextNew]_vars

----------------------------------------------------------------------------
(* Observations used by the properties *)

Invoked == {i \in Procs : pc[i] # "idle"}

CallsOf(i, op) == {k \in DOMAIN calls[i] : calls[i][k].op = op}

\* calls whose result is a failure
FailedCalls(i, ops) ==
  {k \in DOMAIN calls[i] : calls[i][k].op \in ops /\ calls[i][k].result.kind = "err"}

Min(S) == CHOOSE m \in S : \A n \in S : m <= n

LoadCalls(i) == CallsOf(i, "loadEnvProfile")
ListCalls(i) == CallsOf(i, "listEnvProfiles")

\* the middleware called loadSolutionContext (line 31)
ResolverInvoked(i) == pc[i] \notin {"idle", "start"} /\ ctx[i].projectSettings # NoValue

----------------------------------------------------------------------------
(* Properties *)

\* C1: once a prompt of the question traversal (the root prompt or the
\* new-name prompt) has failed, the invocation makes no loadEnvProfile call
\* afterwards.
C1_NoLoadAfterTraversalFailure ==
  \A i \in Invoked :
    \A k \in FailedCalls(i, {"present"}) :
      \A m \in LoadCalls(i) : m < k

\* C2: an invocation that saw listEnvProfiles fail, or a prompt of the
\* traversal fail, ends with ctx.result being exactly the first such failure.
C2_FirstFailureIsFinal ==
  \A i \in Invoked :
    LET failed == FailedCalls(i, {"listEnvProfiles", "present"})
    IN (pc[i] = "done" /\ failed # {})
         => ctx[i].result = Err(calls[i][Min(failed)].result.error)

\* C3: on an opened project a failure result and a solution context are never
\* both recorded, and a finished invocation has exactly one of the two.
C3_ExclusiveOutcomes ==
  \A i \in Invoked :
    ctx[i].projectSettings # NoValue =>
      /\ ~(ctx[i].result.kind = "err" /\ ctx[i].solutionContext # NoValue)
      /\ pc[i] = "done" =>
           (ctx[i].result.kind = "err") # (ctx[i].solutionContext # NoValue)

\* C4: when project settings are absent or projectPath is empty or absent,
\* the registry is never called (neither listEnvProfiles nor loadEnvProfile),
\* and loadSolutionContext, where it is called, returns NoProjectOpened,
\* which the middleware records as the result.
C4_NoProjectGuard ==
  \A i \in Invoked :
    (pc[i] # "start"
       /\ (ctx[i].projectSettings = NoValue \/ Falsy(inputs[i].projectPath)))
    => /\ ListCalls(i) = {}
       /\ LoadCalls(i) = {}
       /\ ResolverInvoked(i) => resolution[i] = Err(NoProjectOpenedError)
       /\ ~ResolverInvoked(i) => resolution[i] = NoValue
       /\ (ResolverInvoked(i) /\ pc[i] = "done")
            => /\ ctx[i].result = Err(NoProjectOpenedError)
               /\ ctx[i].solutionContext = NoValue

\* C4 witness: an opened project without a projectPath finished with
\* NoProjectOpened and an untouched registry.
C4_Witness ==
  \E i \in Invoked :
    /\ pc[i] = "done"
    /\ ResolverInvoked(i)
    /\ inputs[i].projectPath = ""
    /\ ctx[i].result = Err(NoProjectOpenedError)
    /\ calls[i] = <<>>

MissingNewEnvironmentNameError == "MissingNewEnvironmentName"

\* the resolver has decided the name to load (it is past lines 55-62)
NameDecided(i) ==
  /\ ResolverInvoked(i)
  /\ pc[i] \in {"awaitLoadEnvProfile", "awaitLoadSolutionContext", "awaitNext", "done"}
  /\ ~Falsy(inputs[i].projectPath)

\* no collaborator call of the invocation has failed
NoFailedCall(i) == \A k \in DOMAIN calls[i] : calls[i][k].result.kind # "err"

\* C5: with "+ new env" selected and the new-name answer empty or absent,
\* loadSolutionContext returns the MissingNewEnvironmentName error, which is
\* not NoProjectOpened, and calls loadEnvProfile with no name at all.
\* (Stated for invocations in which no collaborator call failed, so that it
\* is decided by lines 55-62 alone.)
C5_NewEnvRequiresName ==
  \A i \in Invoked :
    (NameDecided(i)
       /\ NoFailedCall(i)
       /\ inputs[i].targetEnvName = "+ new env"
       /\ Falsy(inputs[i].newTargetEnvName))
    => /\ resolution[i] = Err(MissingNewEnvironmentNameError)
       /\ resolution[i] # Err(NoProjectOpenedError)
       /\ LoadCalls(i) = {}

\* C6: every loadEnvProfile call passes no crypto provider when the context's
\* projectIdMissing flag is set, and otherwise a provider keyed by the
\* projectId of the open project's settings.
C6_LegacyNoDecrypt ==
  \A i \in Invoked :
    \A k \in LoadCalls(i) :
      IF ctx[i].projectIdMissing
      THEN calls[i][k].cryptoProvider = NoValue
      ELSE calls[i][k].cryptoProvider =
             [kind |-> "LocalCrypto", projectId |-> ctx[i].projectSettings.projectId]

\* C6 witness: a legacy project's loadEnvProfile call was made without a
\* crypto provider.
C6_Witness ==
  \E i \in Invoked :
    /\ ResolverInvoked(i)
    /\ ctx[i].projectIdMissing
    /\ ctx[i].projectSettings.projectId = undefined
    /\ \E k \in LoadCalls(i) : calls[i][k].cryptoProvider = NoValue

\* C7: for a legacy project (no projectId, projectIdMissing set) no real
\* crypto provider is constructed, and the assembled context's cryptoProvider
\* is not a real provider.  (Stated for invocations in which no collaborator
\* call failed.)
C7_LegacyUsesNoOpCrypto ==
  \A i \in Invoked :
    (ResolverInvoked(i)
       /\ NoFailedCall(i)
       /\ ctx[i].projectIdMissing
       /\ ctx[i].projectSettings.projectId = undefined)
    => /\ cryptoProvider[i] = NoValue
       /\ resolution[i].kind = "ok" =>
            resolution[i].value.cryptoProvider.kind # "LocalCrypto"
       /\ ctx[i].solutionContext # NoValue =>
            ctx[i].solutionContext.cryptoProvider.kind # "LocalCrypto"

\* the profile the invocation's loadEnvProfile call returned
LoadedProfile(i) == calls[i][Min(LoadCalls(i))].result.value

\* C8: every assembled context has the targetEnvName and the config of the
\* profile loadEnvProfile returned, whatever name was asked for and whatever
\* the tools bag carries.  (Stated for invocations in which no collaborator
\* call failed.)
C8_ContextNameConsistency ==
  \A i \in Invoked :
    (resolution[i].kind = "ok" /\ NoFailedCall(i))
    => /\ resolution[i].value.targetEnvName = LoadedProfile(i).envName
       /\ resolution[i].value.config = LoadedProfile(i).data

\* the name the claim prescribes for the answers inp
PrescribedEnvName(inp) ==
  IF inp.targetEnvName = "+ new env" /\ inp.newTargetEnvName \notin {undefined, ""}
  THEN inp.newTargetEnvName
  ELSE IF inp.targetEnvName # undefined
  THEN inp.targetEnvName
  ELSE "default"

\* C9: the name passed to loadEnvProfile is the new-name answer when
\* "+ new env" is selected and that answer is non-empty, otherwise the
\* selected name when there is one, otherwise the default name.
C9_LoadedName ==
  \A i \in Invoked :
    \A k \in LoadCalls(i) : calls[i][k].envName = PrescribedEnvName(inputs[i])

\* C9 witness: environments [dev, prod], "+ new env" picked, "staging"
\* typed, and "staging" loaded.
C9_Witness ==
  \E i \in Invoked :
    /\ Len(calls[i]) >= 4
    /\ calls[i][1].op = "listEnvProfiles" /\ calls[i][1].result = Ok(<<"dev", "prod">>)
    /\ calls[i][2].op = "present" /\ calls[i][2].result = Ok("+ new env")
    /\ calls[i][3].op = "present" /\ calls[i][3].result = Ok("staging")
    /\ calls[i][4].op = "loadEnvProfile" /\ calls[i][4].envName = "staging"

\* the step in which _getQuestionsForProvision returns a question tree for i
ReturnsQuestions(i) ==
  /\ pc[i] = "awaitListEnvProfiles"
  /\ pc'[i] = "awaitGetQuestions"
  /\ getQuestionRes'[i].kind = "ok"

\* C10: when _getQuestionsForProvision returns for a listing L, the root
\* question's options are "+ new env" followed by L in L's order and the
\* new-name child is guarded by 'equals "+ new env"'; the new-name prompt is
\* shown iff the root answer is "+ new env".
C10_SentinelRouting ==
  /\ [][\A i \in Procs :
          ReturnsQuestions(i) =>
            LET L == calls'[i][Len(calls'[i])].result.value
                node == getQuestionRes'[i].value
            IN /\ node.data = "QuestionSelectTargetEnvironment"
               /\ QuestionSelectTargetEnvironment'.staticOptions = <<"+ new env">> \o L
               /\ Len(node.children) = 1
               /\ node.children[1].data.name = "newTargetEnvName"
               /\ node.children[1].condition = [equals |-> "+ new env"]]_vars
  /\ [](\A i \in Invoked :
          \A k \in CallsOf(i, "present") :
            (calls[i][k].question = "targetEnvName" /\ calls[i][k].result.kind = "ok")
            => ((calls[i][k].result.value = "+ new env")
                  <=> (\E m \in CallsOf(i, "present") :
                         m > k /\ calls[i][m].question = "newTargetEnvName")))

\* C10 witness: for the listing [dev, prod] the options were "+ new env",
\* dev, prod; the operator picked "+ new env" and was asked for the name.
C10_Witness ==
  \E i \in Invoked :
    /\ Len(calls[i]) >= 3
    /\ calls[i][1].result = Ok(<<"dev", "prod">>)
    /\ calls[i][2].op = "present"
    /\ calls[i][2].options = <<"+ new env", "dev", "prod">>
    /\ calls[i][2].result = Ok("+ new env")
    /\ calls[i][3].op = "present" /\ calls[i][3].question = "newTargetEnvName"

\* C11: with two invocations for different projects interleaved, the options
\* each invocation presents at its root prompt are "+ new env" followed by
\* the names listEnvProfiles returned for its own project.
C11_PrivateOptions ==
  \A i \in Invoked :
    \A k \in CallsOf(i, "present") :
      calls[i][k].question = "targetEnvName" =>
        \E m \in ListCalls(i) :
          /\ m < k
          /\ calls[i][m].projectPath = inputs[i].projectPath
          /\ calls[i][m].result.kind = "ok"
          /\ calls[i][k].options = <<"+ new env">> \o calls[i][m].result.value

\* C12: no loadEnvProfile call is ever made for the name "+ new env"; an
\* operator who picks "+ new env" and types "+ new env" as the name is
\* rejected.
C12_SentinelNeverLoaded ==
  \A i \in Invoked :
    \A k \in LoadCalls(i) : calls[i][k].envName # "+ new env"

NextCalls(i) == CallsOf(i, "next")

\* C13: when loadEnvProfile fails, loadSolutionContext returns exactly that
\* error, no solution context is set, the next stage is not called, and the
\* middleware ends with that error as ctx.result.
C13_LoadFailurePropagates ==
  \A i \in Invoked :
    \A k \in FailedCalls(i, {"loadEnvProfile"}) :
      /\ resolution[i] = Err(calls[i][k].result.error)
      /\ ctx[i].solutionContext = NoValue
      /\ NextCalls(i) = {}
      /\ pc[i] \in {"awaitLoadSolutionContext", "done"}
      /\ pc[i] = "done" => ctx[i].result = Err(calls[i][k].result.error)

\* C13 witness: an invocation whose traversal succeeded and whose load failed
\* has finished with the load error.
C13_Witness ==
  \E i \in Invoked :
    /\ pc[i] = "done"
    /\ FailedCalls(i, {"loadEnvProfile"}) # {}
    /\ FailedCalls(i, {"listEnvProfiles", "present"}) = {}
    /\ ctx[i].result = Err("LoadEnvProfileFailed")

C15_SynthesisCallsNothing ==
  [][synthesized' # synthesized =>
       /\ calls' = calls
       /\ QuestionSelectTargetEnvironment' = QuestionSelectTargetEnvironment
       /\ pc' = pc]_vars

\* C15 witness: newSolutionContext has run and no collaborator was called.
C15_Witness ==
  /\ Len(synthesized) >= 1
  /\ \A i \in Procs : calls[i] = <<>>

PresentCalls(i) == CallsOf(i, "present")

\* C16: within one invocation listEnvProfiles is called at most once and has
\* returned before any prompt is presented; loadEnvProfile is called at most
\* once and only after every prompt has been answered; the calls are made one
\* after the other, each question is presented at most once, and after a
\* failed call the same collaborator operation is not called again.
C16_SequentialNoRetry ==
  \A i \in Invoked :
    /\ Cardinality(ListCalls(i)) <= 1
    /\ Cardinality(LoadCalls(i)) <= 1
    /\ \A l \in ListCalls(i) :
         \A k \in PresentCalls(i) \cup LoadCalls(i) :
           l < k /\ calls[i][l].result # NoValue
    /\ \A m \in LoadCalls(i) :
         \A p \in PresentCalls(i) : p < m /\ calls[i][p].result # NoValue
    /\ \A k \in DOMAIN calls[i] : calls[i][k].result = NoValue => k = Len(calls[i])
    /\ \A p, q \in PresentCalls(i) : calls[i][p].question = calls[i][q].question => p = q
    /\ \A k \in DOMAIN calls[i] :
         calls[i][k].result.kind = "err" =>
           \A m \in DOMAIN calls[i] : m > k => calls[i][m].op # calls[i][k].op

\* C16 witness: listing, root prompt, new-name prompt and load were each
\* called once, in that order, and all returned.
C16_Witness ==
  \E i \in Invoked :
    /\ Len(calls[i]) >= 4
    /\ calls[i][1].op = "listEnvProfiles"
    /\ calls[i][2].op = "present" /\ calls[i][2].question = "targetEnvName"
    /\ calls[i][3].op = "present" /\ calls[i][3].question = "newTargetEnvName"
    /\ calls[i][4].op = "loadEnvProfile"
    /\ calls[i][4].result # NoValue

\* C17: the middleware calls next() at most once; once loadSolutionContext
\* has returned success it calls it exactly once, with ctx.solutionContext
\* already set to the returned context; when loadSolutionContext returned a
\* failure it does not call it.
C17_NextAtMostOnce ==
  \A i \in Invoked :
    /\ Cardinality(NextCalls(i)) <= 1
    /\ resolution[i].kind = "err" => NextCalls(i) = {}
    /\ (resolution[i].kind = "ok" /\ pc[i] = "awaitLoadSolutionContext")
         => NextCalls(i) = {}
    /\ (resolution[i].kind = "ok" /\ pc[i] \in {"awaitNext", "done"})
         => /\ Cardinality(NextCalls(i)) = 1
            /\ ctx[i].solutionContext = resolution[i].value
            /\ \A k \in NextCalls(i) :
                 calls[i][k].solutionContext = resolution[i].value

\* C17 witness: a successful resolution, one returned next() call that saw
\* the assembled context.
C17_Witness ==
  \E i \in Invoked :
    /\ pc[i] = "done"
    /\ resolution[i].kind = "ok"
    /\ \E k \in NextCalls(i) :
         /\ calls[i][k].solutionContext # NoValue
         /\ calls[i][k].result # NoValue

\* C18: with ctx.projectSettings absent the middleware only calls next(),
\* once: ctx.result and ctx.solutionContext stay as they were (no
\* NoProjectOpened is recorded), loadSolutionContext is not called, and there
\* is no registry call and no prompt.
C18_PassThrough ==
  \A i \in Invoked :
    (ctx[i].projectSettings = NoValue /\ pc[i] # "start")
    => /\ Len(calls[i]) = 1
       /\ calls[i][1].op = "next"
       /\ calls[i][1].ctxResult = NoValue
       /\ calls[i][1].solutionContext = NoValue
       /\ ctx[i].result = NoValue
       /\ ctx[i].solutionContext = NoValue
       /\ resolution[i] = NoValue
       /\ pc[i] \in {"awaitNext", "done"}

\* C18 witness: an invocation without project settings, and with a
\* projectPath, has finished after its one next() call.
C18_Witness ==
  \E i \in Invoked :
    /\ pc[i] = "done"
    /\ ctx[i].projectSettings = NoValue
    /\ inputs[i].projectPath = "/projA"
    /\ Len(calls[i]) = 1
    /\ calls[i][1].result # NoValue

====
